---- MODULE Spec2Model ----
(***************************************************************************)
(* Model of compare_json.py: text and price normalisation, the sold-out    *)
(* filter, compare (duplicate detection and classification),               *)
(* flatten_new_anomalies and build_ready_list.                             *)
(*                                                                         *)
(* A Python str is a sequence of characters; a character is a one-element  *)
(* TLA+ string, or the name of its code point ("NBSP", "U00E9", ...) when  *)
(* it is not printable ASCII.  A JSON object is a record whose DOMAIN is   *)
(* the set of keys it holds; the extra field id stands for the identity of *)
(* the Python dict object (the buckets hold references, never copies).     *)
(***************************************************************************)
EXTENDS Integers, Sequences, FiniteSets, TLC

VARIABLES
    pc,                  \* position of main() / of the function under check
    new_in, old_in,      \* the two decoded JSON arrays, before filter_sold_out
    new_items, old_items,\* what load_json returned for each side
    result,              \* compare's return value
    anomalies_only_new,  \* flatten_new_anomalies' return value
    ready_items,         \* build_ready_list's return value
    text_in, text_once, text_twice,   \* normalize_text: s, f(s), f(f(s))
    price_in, price_plain, price_out  \* normalize_price: s, its plain form, f(s)

vars == << pc, new_in, old_in, new_items, old_items, result,
           anomalies_only_new, ready_items, text_in, text_once, text_twice,
           price_in, price_plain, price_out >>

(***************************************************************************)
(* Bounds of the model.                                                    *)
(***************************************************************************)
MaxItems == 2      \* longest input array on either side
MaxTextLen == 3    \* longest string given to normalize_text on its own
MaxGroups == 2     \* most three-digit groups after the leading digits of a price

(***************************************************************************)
(* Characters.  Chars lists the characters of the model in code-point      *)
(* order, so that Rank orders strings as Python's sorted() does.           *)
(***************************************************************************)
Chars ==
    << "TAB", " ", "$", "*", ",", ".",
       "0", "1", "2", "3", "4", "5", "6", "7", "8", "9",
       "A", "D", "E", "G", "K", "M", "O", "R", "S", "T",
       "a", "d", "e", "g", "k", "m", "o", "r", "s", "t", "x",
       "NBSP", "U00B4", "U00C9", "U00E9", "U0301", "U2122" >>

Rank(c) == CHOOSE i \in 1..Len(Chars) : Chars[i] = c

Upper == << "A", "D", "E", "G", "K", "M", "O", "R", "S", "T", "U00C9" >>
LowerOf == << "a", "d", "e", "g", "k", "m", "o", "r", "s", "t", "U00E9" >>

\* str.isspace / the regex class \s
IsSpace(c) == c \in {" ", "TAB", "NBSP"}

\* str.lower on one character; U+2122 and U+00B4 have no lower-case mapping
LowerChar(c) ==
    IF \E i \in 1..Len(Upper) : Upper[i] = c
    THEN LowerOf[CHOOSE i \in 1..Len(Upper) : Upper[i] = c]
    ELSE c

\* unicodedata.normalize("NFKD", c) for one character
NFKD(c) ==
    CASE c = "U00E9" -> << "e", "U0301" >>      \* e with acute
      [] c = "U00C9" -> << "E", "U0301" >>      \* E with acute
      [] c = "U00B4" -> << " ", "U0301" >>      \* spacing acute accent
      [] c = "U2122" -> << "T", "M" >>          \* trade mark sign
      [] c = "NBSP"  -> << " " >>
      [] OTHER       -> << c >>

\* unicodedata.combining(c) # 0
Combining(c) == c = "U0301"

RECURSIVE Flatten(_)
Flatten(ss) == IF ss = << >> THEN << >> ELSE Head(ss) \o Flatten(Tail(ss))

\* text.replace(NBSP, " ")
ReplaceNBSP(t) == [i \in 1..Len(t) |-> IF t[i] = "NBSP" THEN " " ELSE t[i]]

\* re.sub(r"\s+", " ", t): every maximal run of whitespace becomes one space
RECURSIVE CollapseSpaces(_)
CollapseSpaces(t) ==
    IF t = << >> THEN << >>
    ELSE IF IsSpace(Head(t))
         THEN IF Len(t) > 1 /\ IsSpace(t[2])
              THEN CollapseSpaces(Tail(t))
              ELSE << " " >> \o CollapseSpaces(Tail(t))
         ELSE << Head(t) >> \o CollapseSpaces(Tail(t))

RECURSIVE LStrip(_)
LStrip(t) == IF t # << >> /\ IsSpace(Head(t)) THEN LStrip(Tail(t)) ELSE t

RECURSIVE RStrip(_)
RStrip(t) ==
    IF t # << >> /\ IsSpace(t[Len(t)]) THEN RStrip(SubSeq(t, 1, Len(t) - 1)) ELSE t

\* str.strip()
Strip(t) == RStrip(LStrip(t))

\* str.lower()
Lower(t) == [i \in 1..Len(t) |-> LowerChar(t[i])]

\* str.replace(c, "")
RemoveChar(t, c) == SelectSeq(t, LAMBDA x : x # c)

strip_accents(t) ==
    SelectSeq(Flatten([i \in 1..Len(t) |-> NFKD(t[i])]), LAMBDA c : ~Combining(c))

normalize_whitespace(t) == Strip(CollapseSpaces(ReplaceNBSP(t)))

normalize_text(t) == strip_accents(Lower(normalize_whitespace(t)))

(***************************************************************************)
(* normalize_price                                                         *)
(***************************************************************************)
\* str.count(c)
Count(t, c) == Cardinality({i \in 1..Len(t) : t[i] = c})

\* str.replace("ars", ""): non-overlapping occurrences, left to right
RECURSIVE RemoveArs(_)
RemoveArs(t) ==
    IF t = << >> THEN << >>
    ELSE IF Len(t) >= 3 /\ SubSeq(t, 1, 3) = << "a", "r", "s" >>
         THEN RemoveArs(SubSeq(t, 4, Len(t)))
         ELSE << Head(t) >> \o RemoveArs(Tail(t))

IsPriceChar(c) ==
    c \in {"0", "1", "2", "3", "4", "5", "6", "7", "8", "9", ".", ","}

\* re.sub(r"[^0-9.,]", "", s)
KeepPriceChars(t) == SelectSeq(t, IsPriceChar)

\* str.split(sep): the pieces between the occurrences of sep
RECURSIVE SplitFrom(_, _, _)
SplitFrom(t, sep, cur) ==
    IF t = << >> THEN << cur >>
    ELSE IF Head(t) = sep
         THEN << cur >> \o SplitFrom(Tail(t), sep, << >>)
         ELSE SplitFrom(Tail(t), sep, Append(cur, Head(t)))

Split(t, sep) == SplitFrom(t, sep, << >>)

\* ent + "." + dec, where dec is the last piece and ent joins the others
JoinLast(t, sep) ==
    LET parts == Split(t, sep)
        dec == parts[Len(parts)]
        ent == Flatten(SubSeq(parts, 1, Len(parts) - 1))
    IN  ent \o << "." >> \o dec

normalize_price(price) ==
    LET s0 == RemoveArs(normalize_whitespace(Lower(price)))
        s1 == KeepPriceChars(s0)
        s2 == IF Count(s1, ",") = 1 /\ Count(s1, ".") = 0
              THEN [i \in 1..Len(s1) |-> IF s1[i] = "," THEN "." ELSE s1[i]]
              ELSE s1
    IN  IF Count(s2, ".") > 1 THEN JoinLast(s2, ".")
        ELSE IF Count(s2, ",") > 1 THEN JoinLast(s2, ",")
        ELSE s2

(***************************************************************************)
(* Items.  Get models dict.get(key, default).                              *)
(***************************************************************************)
Get(item, key, default) == IF key \in DOMAIN item THEN item[key] ELSE default

\* Python's < on str: lexicographic by code point
RECURSIVE StrLess(_, _)
StrLess(a, b) ==
    IF b = << >> THEN FALSE
    ELSE IF a = << >> THEN TRUE
    ELSE IF Head(a) = Head(b) THEN StrLess(Tail(a), Tail(b))
    ELSE Rank(Head(a)) < Rank(Head(b))

RECURSIVE InsertSorted(_, _)
InsertSorted(x, ss) ==
    IF ss = << >> THEN << x >>
    ELSE IF StrLess(x, Head(ss)) THEN << x >> \o ss
    ELSE << Head(ss) >> \o InsertSorted(x, Tail(ss))

\* sorted(...): a stable sort of a list of strings
RECURSIVE Sorted(_)
Sorted(ss) ==
    IF ss = << >> THEN << >>
    ELSE InsertSorted(ss[Len(ss)], Sorted(SubSeq(ss, 1, Len(ss) - 1)))

NormDetails(ds) == Sorted([i \in 1..Len(ds) |-> normalize_text(ds[i])])

\* mutant: the details are compared in the order they are written
normalize_item_Unsorted(item) ==
    << normalize_text(Get(item, "title", << >>)),
       [i \in 1..Len(Get(item, "details", << >>)) |->
            normalize_text(Get(item, "details", << >>)[i])],
       normalize_price(Get(item, "price", << >>)) >>

normalize_item(item) ==
    << normalize_text(Get(item, "title", << >>)),
       NormDetails(Get(item, "details", << >>)),
       normalize_price(Get(item, "price", << >>)) >>

Agotado == << "a", "g", "o", "t", "a", "d", "o" >>

\* mutant: the asterisks are not removed before the comparison
is_sold_out_KeepsAsterisks(item) ==
    LET details == Get(item, "details", << >>)
    IN  IF Len(details) # 1 THEN FALSE
        ELSE Strip(normalize_text(details[1])) = Agotado

is_sold_out(item) ==
    LET details == Get(item, "details", << >>)
    IN  IF Len(details) # 1 THEN FALSE
        ELSE Strip(RemoveChar(normalize_text(details[1]), "*")) = Agotado

filter_sold_out(items) == SelectSeq(items, LAMBDA it : ~is_sold_out(it))

\* the title key the .get("title", "") call sites compute
TitleKey(it) == normalize_text(Get(it, "title", << >>))

(***************************************************************************)
(* compare: duplicate detection, the two title indexes, classification.    *)
(* An insertion-ordered dict is a sequence of entries in first-insertion   *)
(* order; assigning to a key it holds replaces the value in place.         *)
(***************************************************************************)
\* grouped[key].append(it) on the defaultdict(list)
GroupAdd(grouped, key, it) ==
    IF \E i \in 1..Len(grouped) : grouped[i].title = key
    THEN [i \in 1..Len(grouped) |->
            IF grouped[i].title = key
            THEN [title |-> key, lst |-> Append(grouped[i].lst, it)]
            ELSE grouped[i]]
    ELSE Append(grouped, [title |-> key, lst |-> << it >>])

RECURSIVE GroupByTitle(_, _)
GroupByTitle(items, grouped) ==
    IF items = << >> THEN grouped
    ELSE GroupByTitle(Tail(items),
                      GroupAdd(grouped, TitleKey(Head(items)), Head(items)))

\* the anomalies one call of detect_duplicates appends
detect_duplicates(items, label) ==
    LET grouped == GroupByTitle(items, << >>)
        dups == SelectSeq(grouped, LAMBDA g : Len(g.lst) > 1)
    IN  [i \in 1..Len(dups) |->
            [item   |-> dups[i].lst,
             shape  |-> "list",
             source |-> label,
             reason |-> [text  |-> "contiene entradas duplicadas para el titulo",
                         label |-> label,
                         n     |-> Len(dups[i].lst),
                         title |-> dups[i].title]]]

\* mutant: a key the dict holds keeps its first value
MapPut_FirstWins(m, key, it) ==
    IF \E i \in 1..Len(m) : m[i].key = key
    THEN m
    ELSE Append(m, [key |-> key, value |-> it])

\* m[key] = it
MapPut(m, key, it) ==
    IF \E i \in 1..Len(m) : m[i].key = key
    THEN [i \in 1..Len(m) |->
            IF m[i].key = key THEN [key |-> key, value |-> it] ELSE m[i]]
    ELSE Append(m, [key |-> key, value |-> it])

\* {normalize_text(i["title"]): i for i in items}; i["title"] needs the key
RECURSIVE TitleIndex(_, _)
TitleIndex(items, m) ==
    IF items = << >> THEN m
    ELSE TitleIndex(Tail(items),
                    MapPut(m, normalize_text(Head(items).title), Head(items)))

\* i["title"] raises KeyError for an item without the key
RaisesKeyError(items) == \E i \in 1..Len(items) : "title" \notin DOMAIN items[i]

HasKey(m, key) == \E i \in 1..Len(m) : m[i].key = key

Lookup(m, key) == m[CHOOSE i \in 1..Len(m) : m[i].key = key].value

\* mutant: the mismatch branch is missing
ClassifyStep_NoMismatch(acc, key, new_it, old_map) ==
    IF ~HasKey(old_map, key)
    THEN [acc EXCEPT !.to_insert = Append(@, new_it)]
    ELSE IF normalize_item(new_it) = normalize_item(Lookup(old_map, key))
         THEN [acc EXCEPT !.unchanged = Append(@, new_it)]
         ELSE acc

\* the body of the loop over new_map.items()
ClassifyStep(acc, key, new_it, old_map) ==
    IF ~HasKey(old_map, key)
    THEN [acc EXCEPT !.to_insert = Append(@, new_it)]
    ELSE IF normalize_item(new_it) = normalize_item(Lookup(old_map, key))
         THEN [acc EXCEPT !.unchanged = Append(@, new_it)]
         ELSE [acc EXCEPT !.anomalies = Append(@,
                  [item   |-> [new |-> new_it, old |-> Lookup(old_map, key)],
                   shape  |-> "dict",
                   source |-> "both",
                   reason |-> [text |-> "Mismo titulo pero 'details' y/o 'price' difieren"]])]

RECURSIVE ClassifyNew(_, _, _)
ClassifyNew(new_map, old_map, acc) ==
    IF new_map = << >> THEN acc
    ELSE ClassifyNew(Tail(new_map), old_map,
                     ClassifyStep(acc, Head(new_map).key, Head(new_map).value, old_map))

\* mutant: the test "key not in new_map" is missing
RemoveStep_NoTest(acc, key, old_it, new_map) ==
    [acc EXCEPT !.to_remove = Append(@, old_it)]

\* the body of the loop over old_map.items()
RemoveStep(acc, key, old_it, new_map) ==
    IF ~HasKey(new_map, key)
    THEN [acc EXCEPT !.to_remove = Append(@, old_it)]
    ELSE acc

RECURSIVE ClassifyOld(_, _, _)
ClassifyOld(old_map, new_map, acc) ==
    IF old_map = << >> THEN acc
    ELSE ClassifyOld(Tail(old_map), new_map,
                     RemoveStep(acc, Head(old_map).key, Head(old_map).value, new_map))

NoResult ==
    [to_insert |-> << >>, to_remove |-> << >>, unchanged |-> << >>, anomalies |-> << >>]

\* compare's return value, for inputs on which it does not raise
compare(new, old) ==
    LET a1 == detect_duplicates(new, "nuevo.json")
        a2 == detect_duplicates(old, "viejo.json")
        new_map == TitleIndex(new, << >>)
        old_map == TitleIndex(old, << >>)
        r1 == ClassifyNew(new_map, old_map, [NoResult EXCEPT !.anomalies = a1 \o a2])
    IN  ClassifyOld(old_map, new_map, r1)

(***************************************************************************)
(* flatten_new_anomalies and build_ready_list                              *)
(***************************************************************************)
\* mutant: the source of a duplicate group is not tested
FlatOfEntry_AnySource(entry) ==
    IF entry.shape = "list"
    THEN entry.item
    ELSE IF "new" \in DOMAIN entry.item THEN << entry.item.new >> ELSE << >>

\* what one anomaly entry adds to flat
FlatOfEntry(entry) ==
    IF entry.shape = "list"
    THEN IF entry.source = "nuevo.json" THEN entry.item ELSE << >>
    ELSE IF "new" \in DOMAIN entry.item THEN << entry.item.new >> ELSE << >>

\* the loop "if k not in seen: uniq.append(it); seen.add(k)"
RECURSIVE UniqByTitle(_, _, _)
UniqByTitle(items, seen, uniq) ==
    IF items = << >> THEN uniq
    ELSE LET k == TitleKey(Head(items))
         IN  IF k \notin seen
             THEN UniqByTitle(Tail(items), seen \cup {k}, Append(uniq, Head(items)))
             ELSE UniqByTitle(Tail(items), seen, uniq)

flatten_new_anomalies(anomalies) ==
    UniqByTitle(Flatten([i \in 1..Len(anomalies) |-> FlatOfEntry(anomalies[i])]),
                {}, << >>)

\* mutant: the concatenation is returned without the deduplication
build_ready_list_NoDedup(to_insert, anomalies_new) == to_insert \o anomalies_new

build_ready_list(to_insert, anomalies_new) ==
    UniqByTitle(to_insert \o anomalies_new, {}, << >>)

(***************************************************************************)
(* main(): load_json on both files, compare, flatten_new_anomalies,        *)
(* build_ready_list.  The inputs are arrays of at most MaxItems objects    *)
(* drawn from Catalog; the object at position i of a file has id           *)
(* <<file, i>>.                                                            *)
(***************************************************************************)
Te        == << "T", "e" >>
TeAccent  == << "t", "U00E9", " " >>
Mate      == << "m", "a", "t", "e" >>
Ok        == << "o", "k" >>
OkUpper   == << "O", "K" >>
Extra     == << "x" >>
SoldOutMark == << "*", "A", "G", "O", "T", "A", "D", "O", "*" >>
Ten       == << "1", "0" >>
TenPesos  == << "$", "1", "0" >>

Catalog ==
    << [title |-> Te,       details |-> << Ok, Extra >>,     price |-> Ten],
       [title |-> TeAccent, details |-> << Extra, OkUpper >>, price |-> TenPesos],
       [title |-> Te,       details |-> << Ok, Ok, Extra >>, price |-> Ten],
       [title |-> Te,       details |-> << SoldOutMark >>,   price |-> Ten],
       [title |-> Mate],
       [details |-> << Ok >>, price |-> Ten] >>

Arrays(file) ==
    LET picks == UNION {[1..n -> 1..Len(Catalog)] : n \in 0..MaxItems}
    IN  {[i \in 1..Len(p) |-> Catalog[p[i]] @@ [id |-> << file, i >>]] : p \in picks}

Init ==
    /\ pc = "start"
    /\ new_in \in Arrays("nuevo.json")
    /\ old_in \in Arrays("viejo.json")
    /\ new_items = << >>
    /\ old_items = << >>
    /\ result = NoResult
    /\ anomalies_only_new = << >>
    /\ ready_items = << >>
    /\ text_in = << >> /\ text_once = << >> /\ text_twice = << >>
    /\ price_in = << >> /\ price_plain = << >> /\ price_out = << >>

\* new_items = load_json(new_path)
LoadNew ==
    /\ pc = "start"
    /\ new_items' = filter_sold_out(new_in)
    /\ pc' = "new_loaded"
    /\ UNCHANGED << new_in, old_in, old_items, result, anomalies_only_new,
                    ready_items, text_in, text_once, text_twice,
                    price_in, price_plain, price_out >>

\* old_items = load_json(old_path)
LoadOld ==
    /\ pc = "new_loaded"
    /\ old_items' = filter_sold_out(old_in)
    /\ pc' = "loaded"
    /\ UNCHANGED << new_in, old_in, new_items, result, anomalies_only_new,
                    ready_items, text_in, text_once, text_twice,
                    price_in, price_plain, price_out >>

\* result = compare(new_items, old_items); a KeyError ends the run
Compare ==
    /\ pc = "loaded"
    /\ IF RaisesKeyError(new_items) \/ RaisesKeyError(old_items)
       THEN pc' = "KeyError" /\ result' = result
       ELSE pc' = "compared" /\ result' = compare(new_items, old_items)
    /\ UNCHANGED << new_in, old_in, new_items, old_items, anomalies_only_new,
                    ready_items, text_in, text_once, text_twice,
                    price_in, price_plain, price_out >>

\* anomalies_only_new = flatten_new_anomalies(result["anomalies"])
FlattenNewAnomalies ==
    /\ pc = "compared"
    /\ anomalies_only_new' = flatten_new_anomalies(result.anomalies)
    /\ pc' = "flattened"
    /\ UNCHANGED << new_in, old_in, new_items, old_items, result,
                    ready_items, text_in, text_once, text_twice,
                    price_in, price_plain, price_out >>

\* ready_items = build_ready_list(result["to_insert"], anomalies_only_new)
BuildReadyList ==
    /\ pc = "flattened"
    /\ ready_items' = build_ready_list(result.to_insert, anomalies_only_new)
    /\ pc' = "ready"
    /\ UNCHANGED << new_in, old_in, new_items, old_items, result,
                    anomalies_only_new, text_in, text_once, text_twice,
                    price_in, price_plain, price_out >>

Next == LoadNew \/ LoadOld \/ Compare \/ FlattenNewAnomalies \/ BuildReadyList

Spec == Init /\ [][Next]_vars

(***************************************************************************)
(* normalize_text applied once and twice to every string of at most        *)
(* MaxTextLen characters of TextChars.                                     *)
(***************************************************************************)
TextChars ==
    {"a", "A", " ", "TAB", "NBSP", "U00E9", "U00C9", "U0301", "U00B4", "U2122"}

Strings(chars, n) == UNION {[1..k -> chars] : k \in 0..n}

InitText ==
    /\ pc = "text"
    /\ text_in \in Strings(TextChars, MaxTextLen)
    /\ text_once = << >> /\ text_twice = << >>
    /\ new_in = << >> /\ old_in = << >> /\ new_items = << >> /\ old_items = << >>
    /\ result = NoResult /\ anomalies_only_new = << >> /\ ready_items = << >>
    /\ price_in = << >> /\ price_plain = << >> /\ price_out = << >>

NormalizeOnce ==
    /\ pc = "text"
    /\ text_once' = normalize_text(text_in)
    /\ pc' = "once"
    /\ UNCHANGED << new_in, old_in, new_items, old_items, result,
                    anomalies_only_new, ready_items, text_in, text_twice,
                    price_in, price_plain, price_out >>

NormalizeTwice ==
    /\ pc = "once"
    /\ text_twice' = normalize_text(text_once)
    /\ pc' = "twice"
    /\ UNCHANGED << new_in, old_in, new_items, old_items, result,
                    anomalies_only_new, ready_items, text_in, text_once,
                    price_in, price_plain, price_out >>

NextText == NormalizeOnce \/ NormalizeTwice

SpecText == InitText /\ [][NextText]_vars

(***************************************************************************)
(* normalize_price applied to one amount written in several formats: an    *)
(* optional currency marker, leading digits, up to MaxGroups groups of     *)
(* three digits with or without a thousands separator, a decimal           *)
(* separator and a fraction.  price_plain is the same amount written as    *)
(* integer_digits "." fraction_digits.                                     *)
(***************************************************************************)
Prefixes ==
    { << >>, << "A", "R", "S", " " >>, << "$" >>, << "a", "r", "s" >> }
Leading == { << "1" >>, << "1", "2" >> }
Group == << "2", "3", "4" >>
Fractions == { << "5", "6" >>, << "5" >> }
ThousandsSeps == { << >>, << "." >>, << "," >> }
DecimalSeps == { << "." >>, << "," >> }

RECURSIVE Groups(_, _)
Groups(n, sep) == IF n = 0 THEN << >> ELSE sep \o Group \o Groups(n - 1, sep)

InitPrice ==
    /\ pc = "price"
    /\ \E pre \in Prefixes, lead \in Leading, n \in 0..MaxGroups,
          tsep \in ThousandsSeps, dsep \in DecimalSeps, frac \in Fractions :
          /\ price_in = pre \o lead \o Groups(n, tsep) \o dsep \o frac
          /\ price_plain = lead \o Groups(n, << >>) \o << "." >> \o frac
    /\ price_out = << >>
    /\ new_in = << >> /\ old_in = << >> /\ new_items = << >> /\ old_items = << >>
    /\ result = NoResult /\ anomalies_only_new = << >> /\ ready_items = << >>
    /\ text_in = << >> /\ text_once = << >> /\ text_twice = << >>

NormalizePrice ==
    /\ pc = "price"
    /\ price_out' = normalize_price(price_in)
    /\ pc' = "priced"
    /\ UNCHANGED << new_in, old_in, new_items, old_items, result,
                    anomalies_only_new, ready_items, text_in, text_once,
                    text_twice, price_in, price_plain >>

NextPrice == NormalizePrice

SpecPrice == InitPrice /\ [][NextPrice]_vars

(***************************************************************************)
(* Vocabulary of the properties.                                           *)
(***************************************************************************)
\* compare has just returned / flatten_new_anomalies has just returned; the
\* later steps of main() leave result and anomalies_only_new as they are
Compared == pc = "compared"
Flattened == pc = "flattened"

Ids(items) == [i \in 1..Len(items) |-> items[i].id]
IdSet(items) == {items[i].id : i \in 1..Len(items)}
TitleSet(items) == {TitleKey(items[i]) : i \in 1..Len(items)}

\* how many entries of items have normalized title t
Occ(items, t) == Cardinality({i \in 1..Len(items) : TitleKey(items[i]) = t})

DupGroups(label) ==
    SelectSeq(result.anomalies, LAMBDA e : e.shape = "list" /\ e.source = label)
Mismatches == SelectSeq(result.anomalies, LAMBDA e : e.shape = "dict")
MismatchNew == [i \in 1..Len(Mismatches) |-> Mismatches[i].item.new]
MismatchOld == [i \in 1..Len(Mismatches) |-> Mismatches[i].item.old]
GroupMembers(label) ==
    Flatten([i \in 1..Len(DupGroups(label)) |-> DupGroups(label)[i].item])

\* the positions of c that hold the first entry of their normalized title
FirstPos(c) ==
    LET key == [i \in 1..Len(c) |-> TitleKey(c[i])]
    IN  {i \in 1..Len(c) : \A j \in 1..(i - 1) : key[j] # key[i]}
Nth(S, k) == CHOOSE i \in S : Cardinality({j \in S : j <= i}) = k
FirstByTitle(c) ==
    LET cc == c
        keep == FirstPos(cc)
    IN  [k \in 1..Cardinality(keep) |-> cc[Nth(keep, k)]]

\* the last item of items with normalized title t
LastWithTitle(items, t) ==
    items[CHOOSE i \in 1..Len(items) :
            /\ TitleKey(items[i]) = t
            /\ \A j \in (i + 1)..Len(items) : TitleKey(items[j]) # t]

(***************************************************************************)
(* C1: once compare has returned, every distinct normalized title of the   *)
(* new side is the title of exactly one entry among to_insert, unchanged   *)
(* and the new items of the mismatch anomalies, and every distinct         *)
(* normalized title of the old side is the title of exactly one entry      *)
(* among to_remove, unchanged and the old items of the mismatch anomalies. *)
(***************************************************************************)
C1_ClassificationComplete ==
    Compared =>
        /\ \A t \in TitleSet(new_items) :
              Occ(result.to_insert, t) + Occ(result.unchanged, t)
                + Occ(MismatchNew, t) = 1
        /\ \A t \in TitleSet(old_items) :
              Occ(result.to_remove, t) + Occ(result.unchanged, t)
                + Occ(MismatchOld, t) = 1

C1_Witness ==
    /\ Compared
    /\ result.to_insert # << >>
    /\ Mismatches # << >>

InClassifierAnomaly(id) == id \in IdSet(MismatchNew) \cup IdSet(MismatchOld)
InDupGroup(id) ==
    id \in IdSet(GroupMembers("nuevo.json")) \cup IdSet(GroupMembers("viejo.json"))

BucketsOf(id) ==
    {b \in {"to_insert", "to_remove", "unchanged", "anomalies"} :
        IF b = "anomalies" THEN InClassifierAnomaly(id) \/ InDupGroup(id)
        ELSE id \in IdSet(result[b])}

ClassifierBucketsOf(id) ==
    {b \in {"to_insert", "to_remove", "unchanged", "anomalies"} :
        IF b = "anomalies" THEN InClassifierAnomaly(id)
        ELSE id \in IdSet(result[b])}

AllIds == IdSet(new_items) \cup IdSet(old_items)

(***************************************************************************)
(* C2 as stated: no input item is placed in more than one of the four      *)
(* buckets to_insert, to_remove, unchanged and anomalies, an item being in *)
(* anomalies when it is a member of a duplicate group or the new or old    *)
(* item of a mismatch.                                                     *)
(***************************************************************************)
C2_Original_OneBucketPerItem ==
    Compared => \A id \in AllIds : Cardinality(BucketsOf(id)) <= 1

SideOf(id) == IF id[1] = "nuevo.json" THEN new_items ELSE old_items
ItemOf(id) == LET side == SideOf(id)
              IN  side[CHOOSE i \in 1..Len(side) : side[i].id = id]

(***************************************************************************)
(* C2 amended: no input item is placed in more than one of to_insert,      *)
(* to_remove, unchanged and the mismatch anomalies, and no item occurs     *)
(* twice in one of them; an item that is also a member of a duplicate      *)
(* group is the last item of its title on its side.                        *)
(***************************************************************************)
C2_OneClassifierBucketPerItem ==
    Compared =>
        \A id \in AllIds :
            /\ Cardinality(ClassifierBucketsOf(id)) <= 1
            /\ Cardinality({i \in 1..Len(result.to_insert) : result.to_insert[i].id = id})
               + Cardinality({i \in 1..Len(result.to_remove) : result.to_remove[i].id = id})
               + Cardinality({i \in 1..Len(result.unchanged) : result.unchanged[i].id = id})
               + Cardinality({i \in 1..Len(Mismatches) :
                                id \in {Mismatches[i].item.new.id, Mismatches[i].item.old.id}})
               <= 1
            /\ (InDupGroup(id) /\ ClassifierBucketsOf(id) # {}) =>
                  LastWithTitle(SideOf(id), TitleKey(ItemOf(id))).id = id

C2_Witness ==
    /\ Compared
    /\ \E id \in AllIds : InDupGroup(id) /\ id \in IdSet(result.to_insert)
    /\ \E id \in AllIds : InDupGroup(id) /\ ClassifierBucketsOf(id) = {}

(***************************************************************************)
(* C3: the ready list holds no two entries with equal normalized title; it *)
(* is to_insert followed by the flattened new-side anomalies with, for     *)
(* each normalized title, only the first occurrence kept, in order.        *)
(***************************************************************************)
C3_ReadyListDeduplicated ==
    pc = "ready" =>
        /\ \A i, j \in 1..Len(ready_items) :
              TitleKey(ready_items[i]) = TitleKey(ready_items[j]) => i = j
        /\ ready_items = FirstByTitle(result.to_insert \o anomalies_only_new)

C3_Witness ==
    /\ pc = "ready"
    /\ result.to_insert # << >>
    /\ Len(ready_items) < Len(result.to_insert) + Len(anomalies_only_new)

SoldOutAsStated(item) ==
    /\ "details" \in DOMAIN item
    /\ Len(item.details) = 1
    /\ normalize_text(Strip(RemoveChar(item.details[1], "*"))) = Agotado

WithoutSoldOut(items) == SelectSeq(items, LAMBDA it : ~SoldOutAsStated(it))

OutputIds ==
    IdSet(result.to_insert) \cup IdSet(result.to_remove) \cup IdSet(result.unchanged)
    \cup IdSet(GroupMembers("nuevo.json")) \cup IdSet(GroupMembers("viejo.json"))
    \cup IdSet(MismatchNew) \cup IdSet(MismatchOld)
    \cup IdSet(anomalies_only_new) \cup IdSet(ready_items)

RunWithout ==
    LET n == filter_sold_out(WithoutSoldOut(new_in))
        o == filter_sold_out(WithoutSoldOut(old_in))
        r == compare(n, o)
        f == flatten_new_anomalies(r.anomalies)
    IN  [result |-> r, flat |-> f, ready |-> build_ready_list(r.to_insert, f)]

(***************************************************************************)
(* C4: an item whose details hold exactly one element that equals          *)
(* "agotado" after asterisk stripping, trimming and text normalization     *)
(* appears in no output, on either side, and the run gives the outputs it  *)
(* gives on the inputs without those items; where the other side holds the *)
(* same title and the item's own side holds no other item of that title,   *)
(* that title is classified as an insert or a removal.                     *)
(***************************************************************************)
C4_SoldOutExcluded ==
    pc = "ready" =>
        /\ LET out == OutputIds
           IN  /\ \A i \in 1..Len(new_in) :
                     SoldOutAsStated(new_in[i]) => new_in[i].id \notin out
               /\ \A i \in 1..Len(old_in) :
                     SoldOutAsStated(old_in[i]) => old_in[i].id \notin out
        /\ LET run == RunWithout
           IN  /\ result = run.result
               /\ anomalies_only_new = run.flat
               /\ ready_items = run.ready
        /\ \A i \in 1..Len(new_in) :
              (SoldOutAsStated(new_in[i])
                 /\ TitleKey(new_in[i]) \notin TitleSet(WithoutSoldOut(new_in)))
              => \A j \in 1..Len(old_in) :
                    (~SoldOutAsStated(old_in[j]) /\ TitleKey(old_in[j]) = TitleKey(new_in[i]))
                    => Occ(result.to_remove, TitleKey(old_in[j])) = 1
        /\ \A i \in 1..Len(old_in) :
              (SoldOutAsStated(old_in[i])
                 /\ TitleKey(old_in[i]) \notin TitleSet(WithoutSoldOut(old_in)))
              => \A j \in 1..Len(new_in) :
                    (~SoldOutAsStated(new_in[j]) /\ TitleKey(new_in[j]) = TitleKey(old_in[i]))
                    => Occ(result.to_insert, TitleKey(new_in[j])) = 1

C4_Witness ==
    /\ pc = "ready"
    /\ \E i \in 1..Len(old_in), j \in 1..Len(new_in) :
          /\ SoldOutAsStated(old_in[i])
          /\ TitleKey(new_in[j]) = TitleKey(old_in[i])
          /\ new_in[j].id \in IdSet(result.to_insert)

(***************************************************************************)
(* C7 as stated: compare, flatten_new_anomalies and build_ready_list never *)
(* fail on an item that lacks a field: the run completes whatever fields   *)
(* the items of the two inputs lack.                                       *)
(***************************************************************************)
C7_NeverFailsOnMissingField == pc # "KeyError"

NormPrice(it) == normalize_price(Get(it, "price", << >>))
DetailList(it) == Get(it, "details", << >>)
DetailSet(it) == {normalize_text(DetailList(it)[i]) : i \in 1..Len(DetailList(it))}
DetailCount(it, d) ==
    Cardinality({i \in 1..Len(DetailList(it)) : normalize_text(DetailList(it)[i]) = d})

SharedTitles == TitleSet(new_items) \cap TitleSet(old_items)

InUnchanged(n) == Cardinality({i \in 1..Len(result.unchanged) : result.unchanged[i].id = n.id}) = 1
InMismatch(n, o) ==
    Cardinality({i \in 1..Len(Mismatches) :
                    /\ Mismatches[i].item.new.id = n.id
                    /\ Mismatches[i].item.old.id = o.id
                    /\ Mismatches[i].source = "both"}) = 1

(***************************************************************************)
(* C8 as stated: for a normalized title present in both title indexes, the *)
(* new item is appended to unchanged exactly when the two items have equal *)
(* normalized price and equal SETS of normalized details, and otherwise    *)
(* one mismatch anomaly holding the two items is appended.                 *)
(***************************************************************************)
C8_Original_UnchangedIffEqualSets ==
    Compared =>
        \A t \in SharedTitles :
            LET n == LastWithTitle(new_items, t)
                o == LastWithTitle(old_items, t)
                same == NormPrice(n) = NormPrice(o) /\ DetailSet(n) = DetailSet(o)
            IN  /\ InUnchanged(n) <=> same
                /\ InMismatch(n, o) <=> ~same

(***************************************************************************)
(* C8 amended: ... exactly when the two items have equal normalized price  *)
(* and equal MULTISETS of normalized details (the order of the details     *)
(* does not matter, the number of times a detail is repeated does), and    *)
(* otherwise one mismatch anomaly holding the two items is appended.       *)
(***************************************************************************)
C8_UnchangedIffEqualMultisets ==
    Compared =>
        \A t \in SharedTitles :
            LET n == LastWithTitle(new_items, t)
                o == LastWithTitle(old_items, t)
                same == /\ NormPrice(n) = NormPrice(o)
                        /\ \A d \in DetailSet(n) \cup DetailSet(o) :
                              DetailCount(n, d) = DetailCount(o, d)
            IN  /\ InUnchanged(n) <=> same
                /\ InMismatch(n, o) <=> ~same

C8_Witness ==
    /\ Compared
    /\ \E i \in 1..Len(Mismatches) :
          LET n == Mismatches[i].item.new
              o == Mismatches[i].item.old
          IN  /\ NormPrice(n) = NormPrice(o)
              /\ DetailSet(n) = DetailSet(o)
              /\ DetailList(n) # DetailList(o)

WithTitle(items, t) == SelectSeq(items, LAMBDA it : TitleKey(it) = t)

GroupsFor(label, t) ==
    SelectSeq(DupGroups(label), LAMBDA e : TitleKey(e.item[1]) = t)

\* the ids of the items of title t in the classification buckets
ClassifiedIds(t) ==
    IdSet(WithTitle(result.to_insert, t)) \cup IdSet(WithTitle(result.to_remove, t))
    \cup IdSet(WithTitle(result.unchanged, t))
    \cup IdSet(WithTitle(MismatchNew, t)) \cup IdSet(WithTitle(MismatchOld, t))

(***************************************************************************)
(* C9: when a side holds n > 1 items of one normalized title, compare      *)
(* emits exactly one duplicate-group anomaly for that side and title,      *)
(* holding all n items in input order, and the title is classified by, and *)
(* the buckets hold, only the last of those items in input order.          *)
(***************************************************************************)
C9_DuplicatesReportedLastClassified ==
    Compared =>
        \A t \in TitleSet(new_items) \cup TitleSet(old_items) :
            LET nn == Occ(new_items, t)
                no == Occ(old_items, t)
            IN  (nn > 1 \/ no > 1) =>
                /\ nn > 1 =>
                     /\ Len(GroupsFor("nuevo.json", t)) = 1
                     /\ Ids(GroupsFor("nuevo.json", t)[1].item) = Ids(WithTitle(new_items, t))
                /\ no > 1 =>
                     /\ Len(GroupsFor("viejo.json", t)) = 1
                     /\ Ids(GroupsFor("viejo.json", t)[1].item) = Ids(WithTitle(old_items, t))
                /\ IF no = 0
                   THEN /\ ClassifiedIds(t) = {LastWithTitle(new_items, t).id}
                        /\ IdSet(WithTitle(result.to_insert, t)) = ClassifiedIds(t)
                   ELSE IF nn = 0
                   THEN /\ ClassifiedIds(t) = {LastWithTitle(old_items, t).id}
                        /\ IdSet(WithTitle(result.to_remove, t)) = ClassifiedIds(t)
                   ELSE LET n == LastWithTitle(new_items, t)
                            o == LastWithTitle(old_items, t)
                        IN  IF normalize_item(n) = normalize_item(o)
                            THEN /\ ClassifiedIds(t) = {n.id}
                                 /\ IdSet(WithTitle(result.unchanged, t)) = {n.id}
                            ELSE /\ ClassifiedIds(t) = {n.id, o.id}
                                 /\ InMismatch(n, o)

C9_Witness ==
    /\ Compared
    /\ \E i \in 1..Len(Mismatches) :
          LET n == Mismatches[i].item.new
              t == TitleKey(n)
          IN  /\ Occ(new_items, t) > 1
              /\ LastWithTitle(new_items, t).id = n.id
              /\ normalize_item(WithTitle(new_items, t)[1])
                    = normalize_item(Mismatches[i].item.old)

SourceRank(e) ==
    IF e.shape = "dict" THEN 3 ELSE IF e.source = "nuevo.json" THEN 1 ELSE 2

(***************************************************************************)
(* C10: compare emits the new-side duplicate groups, then the old-side     *)
(* ones, then the mismatches; flatten_new_anomalies returns every member   *)
(* of each new-side duplicate group and the new item of each mismatch, in  *)
(* that order, reduced to the first occurrence per normalized title, and   *)
(* no item of the old side.                                                *)
(***************************************************************************)
C10_FlattenNewSideOnly ==
    Flattened =>
        /\ \A i, j \in 1..Len(result.anomalies) :
              i < j => SourceRank(result.anomalies[i]) <= SourceRank(result.anomalies[j])
        /\ anomalies_only_new = FirstByTitle(GroupMembers("nuevo.json") \o MismatchNew)
        /\ IdSet(anomalies_only_new) \cap IdSet(old_items) = {}

C10_Witness ==
    /\ Flattened
    /\ DupGroups("nuevo.json") # << >>
    /\ DupGroups("viejo.json") # << >>
    /\ Mismatches # << >>
    /\ Len(anomalies_only_new) < Len(GroupMembers("nuevo.json")) + Len(MismatchNew)

(***************************************************************************)
(* C5 as stated: a price with thousands separators and a decimal separator *)
(* of the other kind, with or without a currency marker, normalizes to the *)
(* same result as its plain form integer_digits "." fraction_digits.       *)
(***************************************************************************)
C5_MixedSeparatorsEqualPlain ==
    (pc = "priced" /\ Count(price_in, ".") >= 1 /\ Count(price_in, ",") >= 1)
        => price_out = normalize_price(price_plain)

(***************************************************************************)
(* C6 as stated: normalize_text is idempotent,                             *)
(* normalize_text(normalize_text(s)) = normalize_text(s) for every s.      *)
(***************************************************************************)
C6_NormalizeTextIdempotent == pc = "twice" => text_twice = text_once

====
